---- MODULE Spec2Model ----
(***************************************************************************)
(* Caption pipeline of the reel generator (src/make_srt.py): the timing    *)
(* estimator, the caption chunker, the SRT serializer with its timestamp   *)
(* formatter, the validator and the alignment adapter.                     *)
(*                                                                         *)
(* Text is a sequence of one-character strings.  Times are Python floats,  *)
(* modelled bit for bit as IEEE 754 binary64 values with the rounding of   *)
(* each arithmetic operation of the source.                                *)
(***************************************************************************)
EXTENDS Integers, Sequences, FiniteSets, TLC

VARIABLES
    pc,                  \* position of the operation in progress
    ADVANCED_ALIGNMENT,  \* make_srt.py:6-11, resolved once at import
    script,              \* argument of create_srt_from_script
    audio_duration,      \* argument of create_srt_from_script / total_duration
    output_path,         \* argument: destination of the SRT file
    audio_file,          \* argument: audio path or None
    words,               \* local: the words being timed
    word_timings,        \* local: list of {word, start, end}
    srt_entries,         \* local: list of {text, start, end}
    seconds,             \* argument of format_srt_timestamp
    stamp,               \* its result
    files,               \* file system: path -> content or NoFile
    dirs,                \* file system: the directories that exist
    outcome,             \* how the latest call ended: returned value or raised error
    raised,              \* errors raised so far in the current run, in order
    warnings,            \* errors the current run caught and reported as a warning
    attempts             \* calls of create_srt_from_timings in the current run

vars == <<pc, ADVANCED_ALIGNMENT, script, audio_duration, output_path, audio_file,
          words, word_timings, srt_entries, seconds, stamp, files, dirs,
          outcome, raised, warnings, attempts>>

-----------------------------------------------------------------------------
(* Bounds of the model *)

\* words of a sequence given to estimate_word_timing on its own
MaxWords == 3

\* timings of a sequence given to create_srt_from_timings on its own
MaxTimings == 6

\* quarters of a millisecond around each whole second given to format_srt_timestamp
MaxStampTicks == 40

\* len(audio) of the audio file, in milliseconds
AudioMillis == 2000

-----------------------------------------------------------------------------
(* Natural numbers of any size: little-endian sequences of limbs below     *)
(* Base, without leading zero limbs (<<>> is 0).                           *)

LimbBits == 15

Base == 2^LimbBits

Abs(x) == IF x < 0 THEN -x ELSE x

Min(x, y) == IF x < y THEN x ELSE y

RECURSIVE BigNorm(_)
BigNorm(a) ==
    IF a # <<>> /\ a[Len(a)] = 0 THEN BigNorm(SubSeq(a, 1, Len(a) - 1)) ELSE a

RECURSIVE BigFromInt(_)
BigFromInt(n) == IF n = 0 THEN <<>> ELSE <<n % Base>> \o BigFromInt(n \div Base)

RECURSIVE BigToInt(_)
BigToInt(a) == IF a = <<>> THEN 0 ELSE a[1] + Base * BigToInt(Tail(a))

Limb(a, i) == IF i <= Len(a) THEN a[i] ELSE 0

RECURSIVE AddLoop(_, _, _, _)
AddLoop(a, b, i, carry) ==
    IF i > Len(a) /\ i > Len(b) THEN (IF carry = 0 THEN <<>> ELSE <<carry>>)
    ELSE LET t == Limb(a, i) + Limb(b, i) + carry
         IN  <<t % Base>> \o AddLoop(a, b, i + 1, t \div Base)

BigAdd(a, b) == AddLoop(a, b, 1, 0)

RECURSIVE SubLoop(_, _, _, _)
SubLoop(a, b, i, borrow) ==
    IF i > Len(a) THEN <<>>
    ELSE LET t == a[i] - Limb(b, i) - borrow
         IN  <<t % Base>> \o SubLoop(a, b, i + 1, IF t < 0 THEN 1 ELSE 0)

\* a - b for a >= b
BigSub(a, b) == BigNorm(SubLoop(a, b, 1, 0))

RECURSIVE CmpLoop(_, _, _)
CmpLoop(a, b, i) ==
    IF i = 0 THEN 0
    ELSE IF a[i] # b[i] THEN (IF a[i] < b[i] THEN -1 ELSE 1)
    ELSE CmpLoop(a, b, i - 1)

\* -1, 0 or 1 as a <, =, > b
BigCmp(a, b) ==
    IF Len(a) # Len(b) THEN (IF Len(a) < Len(b) THEN -1 ELSE 1)
    ELSE CmpLoop(a, b, Len(a))

RECURSIVE MulLimbLoop(_, _, _, _)
MulLimbLoop(a, d, i, carry) ==
    IF i > Len(a) THEN (IF carry = 0 THEN <<>> ELSE <<carry>>)
    ELSE LET t == a[i] * d + carry
         IN  <<t % Base>> \o MulLimbLoop(a, d, i + 1, t \div Base)

\* a * d for 0 <= d < Base
BigMulLimb(a, d) == IF d = 0 THEN <<>> ELSE MulLimbLoop(a, d, 1, 0)

ShiftLimbs(a, k) == IF a = <<>> THEN <<>> ELSE [i \in 1..k |-> 0] \o a

RECURSIVE MulLoop(_, _, _)
MulLoop(a, b, i) ==
    IF i > Len(b) THEN <<>>
    ELSE BigAdd(ShiftLimbs(BigMulLimb(a, b[i]), i - 1), MulLoop(a, b, i + 1))

BigMul(a, b) == MulLoop(a, b, 1)

\* a * 2^k
BigShl(a, k) == ShiftLimbs(BigMulLimb(a, 2^(k % LimbBits)), k \div LimbBits)

\* from the top limb down: quotient limbs (little-endian) and remainder
RECURSIVE DivLimbLoop(_, _, _, _)
DivLimbLoop(a, d, i, rem) ==
    IF i = 0 THEN [q |-> <<>>, r |-> rem]
    ELSE LET cur == rem * Base + a[i]
             rest == DivLimbLoop(a, d, i - 1, cur % d)
         IN  [q |-> Append(rest.q, cur \div d), r |-> rest.r]

\* a \div d and a % d for 0 < d <= Base
BigDivLimb(a, d) == BigNorm(DivLimbLoop(a, d, Len(a), 0).q)

BigModLimb(a, d) == DivLimbLoop(a, d, Len(a), 0).r

\* a \div 2^k
BigShr(a, k) ==
    IF k \div LimbBits >= Len(a) THEN <<>>
    ELSE BigDivLimb(SubSeq(a, (k \div LimbBits) + 1, Len(a)), 2^(k % LimbBits))

\* a % 2^k
BigLow(a, k) ==
    BigNorm([i \in 1..Min(Len(a), (k \div LimbBits) + 1) |->
                IF i = (k \div LimbBits) + 1 THEN a[i] % 2^(k % LimbBits) ELSE a[i]])

RECURSIVE BitLenLimb(_)
BitLenLimb(x) == IF x = 0 THEN 0 ELSE 1 + BitLenLimb(x \div 2)

BitLen(a) == IF a = <<>> THEN 0 ELSE LimbBits * (Len(a) - 1) + BitLenLimb(a[Len(a)])

\* the largest d with v * d <= cur, from the estimate qhat >= d
RECURSIVE Correct(_, _, _)
Correct(cur, v, qhat) ==
    IF BigCmp(BigMulLimb(v, qhat), cur) > 0 THEN Correct(cur, v, qhat - 1) ELSE qhat

\* cur \div v for cur < v * Base, v with its top limb at least Base \div 2
QuotDigit(cur, v) ==
    IF BigCmp(cur, v) < 0 THEN 0
    ELSE LET n == Len(v)
             top == Limb(cur, n + 1) * Base + Limb(cur, n)
         IN  Correct(cur, v, Min(Base - 1, top \div v[n]))

\* one limb of long division: the digit d of cur \div v goes in front of the
\* lower digits q, and what is left of cur is the next remainder
DivDigit(cur, d, v, q) == [q |-> <<d>> \o q, r |-> BigSub(cur, BigMulLimb(v, d))]

DivLimb(cur, v, q) == DivDigit(cur, QuotDigit(cur, v), v, q)

DivStep(st, limb, v) == DivLimb(BigNorm(<<limb>> \o st.r), v, st.q)

\* long division from the top limb of u down: st.r is what is left of the
\* limbs taken so far, st.q their quotient limbs
LongDivLoop[u \in Seq(Nat), v \in Seq(Nat), st \in [q : Seq(Nat), r : Seq(Nat)]] ==
    IF u = <<>> THEN [q |-> BigNorm(st.q), r |-> st.r]
    ELSE LongDivLoop[SubSeq(u, 1, Len(u) - 1), v, DivStep(st, u[Len(u)], v)]

\* the shift that brings the top limb of v to at least Base \div 2
NormShift(v) == LimbBits - BitLenLimb(v[Len(v)])

\* u \div v and whether u % v # 0 (as r # <<>>), for v # 0
BigDivMod(u, v) ==
    LongDivLoop[BigShl(u, NormShift(v)), BigShl(v, NormShift(v)), [q |-> <<>>, r |-> <<>>]]

BigOne == <<1>>

-----------------------------------------------------------------------------
(* Python floats: IEEE 754 binary64, round to nearest, ties to even.       *)
(* [s |-> 1 or -1, m |-> significand, e |-> exponent] is s * m * 2^e with  *)
(* 2^52 <= m < 2^53, or m = 0 (e = 0) for zero.  The model's inputs stay   *)
(* in the normal range: no infinities, NaNs or subnormals arise.           *)

Precision == 53

FZero == [s |-> 1, m |-> <<>>, e |-> 0]

IsZero(x) == x.m = <<>>

\* a significand of Precision or Precision + 1 bits, brought to Precision
Carry(s, r, e) ==
    IF BitLen(r) > Precision THEN [s |-> s, m |-> BigShr(r, 1), e |-> e + 1]
    ELSE [s |-> s, m |-> r, e |-> e]

\* q and what was cut off below it, c its comparison with half a unit of q:
\* to the nearest, a tie to the even significand
RoundNearestEven(s, q, c, e) ==
    Carry(s, IF c > 0 \/ (c = 0 /\ q[1] % 2 = 1) THEN BigAdd(q, BigOne) ELSE q, e)

\* l is the bit length of n
RoundBits(s, n, e, l) ==
    IF l = 0 THEN FZero
    ELSE IF l <= Precision
    THEN [s |-> s, m |-> BigShl(n, Precision - l), e |-> e - (Precision - l)]
    ELSE RoundNearestEven(s, BigShr(n, l - Precision),
                          BigCmp(BigLow(n, l - Precision), BigShl(BigOne, l - Precision - 1)),
                          e + (l - Precision))

\* s * n * 2^e, rounded to a float
RoundPack(s, n, e) == RoundBits(s, n, e, BitLen(n))

\* float(n) for an integer n
FromInt(n) == RoundPack(IF n < 0 THEN -1 ELSE 1, BigFromInt(Abs(n)), 0)

\* 1.0
FOne == [s |-> 1, m |-> BigShl(BigOne, Precision - 1), e |-> -(Precision - 1)]

FNeg(x) == IF IsZero(x) THEN x ELSE [x EXCEPT !.s = -x.s]

\* sx * a * 2^e + sy * b * 2^e
AddAligned(sx, a, sy, b, e) ==
    IF sx = sy THEN RoundPack(sx, BigAdd(a, b), e)
    ELSE IF BigCmp(a, b) >= 0 THEN RoundPack(sx, BigSub(a, b), e)
    ELSE RoundPack(sy, BigSub(b, a), e)

FAdd(x, y) ==
    IF IsZero(x) THEN y
    ELSE IF IsZero(y) THEN x
    ELSE AddAligned(x.s, BigShl(x.m, x.e - Min(x.e, y.e)),
                    y.s, BigShl(y.m, y.e - Min(x.e, y.e)), Min(x.e, y.e))

FSub(x, y) == FAdd(x, FNeg(y))

FMul(x, y) ==
    IF IsZero(x) \/ IsZero(y) THEN FZero
    ELSE RoundPack(x.s * y.s, BigMul(x.m, y.m), x.e + y.e)

\* the quotient d.q with one more bit for a remainder that is not zero
RoundQuotient(s, d, e) ==
    RoundPack(s, BigAdd(BigShl(d.q, 1), IF d.r # <<>> THEN BigOne ELSE <<>>), e)

\* x / y for y # 0: 4 limbs of quotient, and one more bit for what is left
FDiv(x, y) ==
    IF IsZero(x) THEN FZero
    ELSE RoundQuotient(x.s * y.s, BigDivMod(ShiftLimbs(x.m, 4), y.m),
                       x.e - y.e - (4 * LimbBits + 1))

\* the float nearest to the decimal n / d: a float literal of the source
Float(n, d) == FDiv(FromInt(n), FromInt(d))

\* -1, 0 or 1 as x is negative, zero or positive
Sign(x) == IF IsZero(x) THEN 0 ELSE x.s

\* -1, 0 or 1 as x <, =, > y
FCmp(x, y) == Sign(FSub(x, y))

FLess(x, y) == FCmp(x, y) < 0

\* max(x, y) of Python: y only if y > x
FMax(x, y) == IF FCmp(y, x) > 0 THEN y ELSE x

\* C fmod(x, k) for an integer 0 < k < Base: exact, with the sign of x
Fmod(x, k) ==
    IF IsZero(x) THEN FZero
    ELSE IF x.e >= 0
    THEN RoundPack(x.s, BigFromInt(BigModLimb(BigShl(x.m, x.e), k)), 0)
    ELSE RoundPack(x.s,
                   BigAdd(BigShl(BigFromInt(BigModLimb(BigShr(x.m, -x.e), k)), -x.e),
                          BigLow(x.m, -x.e)),
                   x.e)

\* the remainder takes the sign of the divisor k > 0
SignOfDivisor(mod, k) ==
    IF IsZero(mod) THEN FZero
    ELSE IF mod.s < 0 THEN FAdd(mod, FromInt(k))
    ELSE mod

\* x % k (float_rem of CPython) for an integer 0 < k < Base
FMod(x, k) == SignOfDivisor(Fmod(x, k), k)

\* floor(s * (a + frac) / k) for an integer a >= 0 and a fraction 0 <= frac < 1
\* that is zero or not: below zero, what is cut off takes the quotient down
FloorQuotient(s, a, fractional, k) ==
    RoundPack(s,
              IF s < 0 /\ (fractional \/ BigModLimb(a, k) # 0)
              THEN BigAdd(BigDivLimb(a, k), BigOne)
              ELSE BigDivLimb(a, k),
              0)

\* x // k (float_floor_div of CPython) for an integer 0 < k < Base and
\* |x| < 2^Precision, where x - fmod(x, k), its quotient by k and the floor
\* of that are all exact: the float of floor(x / k)
FFloorDiv(x, k) ==
    IF IsZero(x) THEN FZero
    ELSE IF x.e >= 0 THEN FloorQuotient(x.s, BigShl(x.m, x.e), FALSE, k)
    ELSE FloorQuotient(x.s, BigShr(x.m, -x.e), BigLow(x.m, -x.e) # <<>>, k)

\* int(x): truncation toward zero
FInt(x) ==
    IF IsZero(x) THEN 0
    ELSE IF x.e >= 0 THEN x.s * BigToInt(BigShl(x.m, x.e))
    ELSE x.s * BigToInt(BigShr(x.m, -x.e))

-----------------------------------------------------------------------------
(* Text *)

DigitChars == <<"0", "1", "2", "3", "4", "5", "6", "7", "8", "9">>

IsDigit(c) == \E i \in 1..10 : DigitChars[i] = c

RECURSIVE Decimal(_)
Decimal(n) ==
    IF n < 10 THEN <<DigitChars[n + 1]>>
    ELSE Decimal(n \div 10) \o <<DigitChars[(n % 10) + 1]>>

RECURSIVE ZeroPad(_, _)
ZeroPad(s, width) == IF Len(s) >= width THEN s ELSE ZeroPad(<<"0">> \o s, width)

\* f"{n:0<width>d}": sign-aware zero padding to a minimum width
FormatD(n, width) ==
    IF n < 0 THEN <<"-">> \o ZeroPad(Decimal(-n), width - 1)
    ELSE ZeroPad(Decimal(n), width)

\* word.endswith(suffixes), each suffix one character
EndsWith(word, suffixes) == Len(word) > 0 /\ word[Len(word)] \in suffixes

\* sep.join(parts), sep a text
RECURSIVE Join(_, _)
Join(sep, parts) ==
    IF parts = <<>> THEN <<>>
    ELSE IF Len(parts) = 1 THEN parts[1]
    ELSE parts[1] \o sep \o Join(sep, Tail(parts))

\* text.split(c) for a one-character separator: empty fields are kept
RECURSIVE SplitOn(_, _)
SplitOn(text, c) ==
    IF \A i \in 1..Len(text) : text[i] # c THEN <<text>>
    ELSE LET i == CHOOSE k \in 1..Len(text) :
                      text[k] = c /\ \A j \in 1..(k - 1) : text[j] # c
         IN  <<SubSeq(text, 1, i - 1)>> \o SplitOn(SubSeq(text, i + 1, Len(text)), c)

Whitespace == {" ", "\n", "\t"}

\* text.split(): runs of whitespace separate, no empty fields
RECURSIVE SplitWs(_)
SplitWs(text) ==
    IF \A i \in 1..Len(text) : text[i] \in Whitespace THEN <<>>
    ELSE LET b == CHOOSE k \in 1..Len(text) :
                      text[k] \notin Whitespace /\ \A j \in 1..(k - 1) : text[j] \in Whitespace
             e == CHOOSE k \in b..Len(text) :
                      /\ \A j \in b..k : text[j] \notin Whitespace
                      /\ (k = Len(text) \/ text[k + 1] \in Whitespace)
         IN  <<SubSeq(text, b, e)>> \o SplitWs(SubSeq(text, e + 1, Len(text)))

\* text.replace(a, b) for one-character a and b
Replace(text, a, b) == [i \in 1..Len(text) |-> IF text[i] = a THEN b ELSE text[i]]

-----------------------------------------------------------------------------
(* estimate_word_timing, make_srt.py:82-120 *)

None == "None"

Raise(type) == [ok |-> FALSE, error |-> type]

Return(value) == [ok |-> TRUE, value |-> value]

SentencePunctuation == {".", "!", "?"}

ClausePunctuation == {",", ";", ":"}

\* the float literals of lines 89-101
F_0_3 == Float(3, 10)

F_0_2 == Float(2, 10)

F_0_1 == Float(1, 10)

F_0_15 == Float(15, 100)

\* lines 92-95: longer words take more time, shorter words less
LengthUnadjusted(word, base_duration) == base_duration

LengthAdjusted(word, base_duration) ==
    IF Len(word) > 6 THEN FAdd(base_duration, F_0_2)
    ELSE IF Len(word) <= 3 THEN FMax(F_0_2, FSub(base_duration, F_0_1))
    ELSE base_duration

\* lines 98-101: pauses for punctuation
PauseAdjusted(word, base_duration) ==
    IF EndsWith(word, SentencePunctuation) THEN FAdd(base_duration, F_0_3)
    ELSE IF EndsWith(word, ClausePunctuation) THEN FAdd(base_duration, F_0_15)
    ELSE base_duration

\* lines 89-101: the relative duration of one word
WordDuration(word) == PauseAdjusted(word, LengthAdjusted(word, F_0_3))

\* line 106: sum(durations), added left to right from 0
RECURSIVE FSum(_, _)
FSum(s, acc) == IF s = <<>> THEN acc ELSE FSum(Tail(s), FAdd(acc, s[1]))

\* line 107
ScaleFactorUnnormalized(total_duration, total_estimated) == FOne

ScaleFactor(total_duration, total_estimated) == FDiv(total_duration, total_estimated)

\* lines 111-118
RECURSIVE TimingLoop(_, _, _, _, _, _)
\* lines 113-117: one word from current_time to its end
TimingStep(ws, word_durations, scale_factor, i, current_time, end, timings) ==
    TimingLoop(ws, word_durations, scale_factor, i + 1, end,
               Append(timings, [word |-> ws[i], start |-> current_time, end |-> end]))

TimingLoop(ws, word_durations, scale_factor, i, current_time, timings) ==
    IF i > Len(ws) THEN timings
    ELSE TimingStep(ws, word_durations, scale_factor, i, current_time,
                    FAdd(current_time, FMul(word_durations[i], scale_factor)), timings)

\* lines 106-120: a sum of 0 (no word) makes line 107 divide by zero
ScaledTimings(ws, word_durations, total_estimated, total_duration) ==
    IF IsZero(total_estimated) THEN Raise("ZeroDivisionError")
    ELSE Return(TimingLoop(ws, word_durations, ScaleFactor(total_duration, total_estimated),
                           1, FZero, <<>>))

\* lines 86-104: the relative durations, word by word
WordDurations(ws) == [i \in 1..Len(ws) |-> WordDuration(ws[i])]

TimingsOf(ws, word_durations, total_duration) ==
    ScaledTimings(ws, word_durations, FSum(word_durations, FZero), total_duration)

estimate_word_timing(ws, total_duration) == TimingsOf(ws, WordDurations(ws), total_duration)

-----------------------------------------------------------------------------
(* The chunker of create_srt_from_timings, make_srt.py:125-155 *)

ChunkPunctuation == {".", "!", "?", ",", ";"}

\* lines 136-139
ShouldEndChunkFromThree(current_chunk, word) ==
    \/ Len(current_chunk) >= 4
    \/ (Len(current_chunk) >= 3 /\ EndsWith(word, ChunkPunctuation))

ShouldEndChunkAtFive(current_chunk, word) ==
    \/ Len(current_chunk) >= 5
    \/ (Len(current_chunk) >= 2 /\ EndsWith(word, ChunkPunctuation))

ShouldEndChunk(current_chunk, word) ==
    \/ Len(current_chunk) >= 4
    \/ (Len(current_chunk) >= 2 /\ EndsWith(word, ChunkPunctuation))

\* lines 142-146 and 151-155
Entry(current_chunk, chunk_start, end) ==
    [text |-> Join(<<" ">>, current_chunk), start |-> chunk_start, end |-> end]

\* lines 129-147: the state after the loop
RECURSIVE ChunkLoop(_, _, _, _, _)
ChunkLoop(timings, i, entries, current_chunk, chunk_start) ==
    IF i > Len(timings)
    THEN [entries |-> entries, current_chunk |-> current_chunk, chunk_start |-> chunk_start]
    ELSE LET timing == timings[i]
             start == IF current_chunk = <<>> THEN timing.start ELSE chunk_start
             chunk == Append(current_chunk, timing.word)
         IN  IF ShouldEndChunk(chunk, timing.word)
             THEN ChunkLoop(timings, i + 1,
                            Append(entries, Entry(chunk, start, timing.end)), <<>>, start)
             ELSE ChunkLoop(timings, i + 1, entries, chunk, start)

\* lines 149-155
RemainingDropped(timings, after) == after.entries

Remaining(timings, after) ==
    IF after.current_chunk # <<>>
    THEN Append(after.entries,
                Entry(after.current_chunk, after.chunk_start, timings[Len(timings)].end))
    ELSE after.entries

Chunks(timings) == Remaining(timings, ChunkLoop(timings, 1, <<>>, <<>>, None))

-----------------------------------------------------------------------------
(* format_srt_timestamp, make_srt.py:180-187 *)

F_1000 == FromInt(1000)

\* line 182
HoursOfRemainder(s) == FInt(FFloorDiv(FMod(s, 3600), 3600))

Hours(s) == FInt(FFloorDiv(s, 3600))

\* line 183
Minutes(s) == FInt(FFloorDiv(FMod(s, 3600), 60))

\* line 184
Secs(s) == FInt(FMod(s, 60))

\* line 185
MillisecondsOfTotal(s) == FInt(FMul(s, F_1000))

Milliseconds(s) == FInt(FMul(FMod(s, 1), F_1000))

\* line 187
format_srt_timestamp(s) ==
    FormatD(Hours(s), 2) \o <<":">> \o FormatD(Minutes(s), 2) \o <<":">>
        \o FormatD(Secs(s), 2) \o <<",">> \o FormatD(Milliseconds(s), 3)

-----------------------------------------------------------------------------
(* The serializer of create_srt_from_timings, make_srt.py:157-170 *)

Arrow == <<" ", "-", "-", ">", " ">>

\* lines 159-166: the lines of entry i (0-based, as enumerate gives it)
EntryLines(i, entry) ==
    << Decimal(i + 1),
       format_srt_timestamp(entry.start) \o Arrow \o format_srt_timestamp(entry.end),
       entry.text,
       <<>> >>

RECURSIVE SrtLines(_, _)
SrtLines(entries, i) ==
    IF i >= Len(entries) THEN <<>>
    ELSE EntryLines(i, entries[i + 1]) \o SrtLines(entries, i + 1)

\* lines 168-170
PopTrailingKept(srt_content) == srt_content

PopTrailingEmpty(srt_content) ==
    IF srt_content # <<>> /\ srt_content[Len(srt_content)] = <<>>
    THEN SubSeq(srt_content, 1, Len(srt_content) - 1)
    ELSE srt_content

\* line 175: what is written
SrtText(entries) == Join(<<"\n">>, PopTrailingEmpty(SrtLines(entries, 0)))

-----------------------------------------------------------------------------
(* validate_srt_file, make_srt.py:189-203 *)

\* line 196: "d" stands for \d, every other character for itself
StampPattern == <<"d", "d", ":", "d", "d", ":", "d", "d", ",", "d", "d", "d">>

TimestampPattern == StampPattern \o Arrow \o StampPattern

MatchesAt(content, i) ==
    /\ i + Len(TimestampPattern) - 1 <= Len(content)
    /\ \A k \in 1..Len(TimestampPattern) :
          IF TimestampPattern[k] = "d" THEN IsDigit(content[i + k - 1])
          ELSE content[i + k - 1] = TimestampPattern[k]

\* lines 197-199: re.findall finds at least one match
HasTimestamp(content) == \E i \in 1..Len(content) : MatchesAt(content, i)

-----------------------------------------------------------------------------
(* The file system and the errors of a run *)

\* os.path.dirname(path): what precedes the last "/"
Dirname(path) ==
    IF \A i \in 1..Len(path) : path[i] # "/" THEN <<>>
    ELSE LET i == CHOOSE k \in 1..Len(path) :
                      path[k] = "/" /\ \A j \in (k + 1)..Len(path) : path[j] # "/"
         IN  SubSeq(path, 1, i - 1)

NoFile == [kind |-> "none", text |-> <<>>, ms |-> 0]

TextFile(text) == [kind |-> "text", text |-> text, ms |-> 0]

AudioFile(ms) == [kind |-> "audio", text |-> <<>>, ms |-> ms]

\* os.path.exists(path), for the paths of the model
Exists(path) == path \in DOMAIN files /\ files[path].kind # "none"

NoError == [type |-> "none", id |-> 0, by |-> "none"]

\* the next error raised in this run, by the function it leaves: errors are
\* told apart by their number
NewError(type, by) == [type |-> type, id |-> Len(raised) + 1, by |-> by]

NoOutcome == [kind |-> "none", value |-> <<>>, error |-> NoError]

Returned(value) == [kind |-> "return", value |-> value, error |-> NoError]

Raised(error) == [kind |-> "raise", value |-> <<>>, error |-> error]

\* validate_srt_file, make_srt.py:189-203: an unreadable file gives False
validate_srt_file(srt_path) ==
    /\ Exists(srt_path)
    /\ files[srt_path].kind = "text"
    /\ HasTimestamp(files[srt_path].text)

-----------------------------------------------------------------------------
(* Inputs of the model *)

Hey == <<"H", "e", "y">>

Go == <<"g", "o", ",">>

Word == <<"w", "o", "r", "d">>

Note == <<"n", "o", "t", "e", ":">>

Why == <<"w", "h", "y", "?">>

Parents == <<"p", "a", "r", "e", "n", "t", "s", "!">>

\* the empty path stands for None: `if audio_file` is false for both
NoPath == <<>>

TempDir == <<"t", "e", "m", "p">>

\* "temp/captions.srt", the destination main.py uses
OutPath == TempDir \o <<"/", "c", "a", "p", "t", "i", "o", "n", "s", ".", "s", "r", "t">>

\* "captions.srt": a destination without a directory part
BarePath == <<"c", "a", "p", "t", "i", "o", "n", "s", ".", "s", "r", "t">>

\* "temp/voice.mp3", the audio main.py passes
Mp3Path == TempDir \o <<"/", "v", "o", "i", "c", "e", ".", "m", "p", "3">>

\* "temp/voice_temp.wav"
TempWavPath == TempDir \o <<"/", "v", "o", "i", "c", "e", "_", "t", "e", "m", "p", ".", "w", "a", "v">>

\* "temp/voice.wav": an audio path without ".mp3"
WavInPath == TempDir \o <<"/", "v", "o", "i", "c", "e", ".", "w", "a", "v">>

Paths == {OutPath, BarePath, Mp3Path, TempWavPath, WavInPath}

OutputPaths == {OutPath, BarePath}

AudioArgs == {NoPath, Mp3Path}

\* scripts: no word at all, one caption, two captions over two lines
Scripts ==
    { <<"\n", " ">>,
      Hey \o <<" ">> \o Parents,
      Go \o <<"\n">> \o Note \o <<" ">> \o Hey \o <<" ", " ">> \o Parents \o <<"\n">> \o Hey }

\* audio_duration: -1.5, 0.0 and 2.5 seconds
PipelineDurations == {Float(-3, 2), FZero, Float(5, 2)}

-----------------------------------------------------------------------------
(* create_srt_from_timings, make_srt.py:122-178 *)

IoFaults == {"none", "open", "write"}

\* where a failing write may stop: at the start, or after a line of the text
Cuts(text) == {k \in 0..(Len(text) - 1) : k = 0 \/ text[k] = "\n"}

\* lines 173-175: makedirs, open and write; fault is what the environment does
SerializerWrite(path, text, fault, cut) ==
    LET dir == Dirname(path)
    IN  IF dir = <<>>
        THEN [files |-> files, dirs |-> dirs, error |-> "FileNotFoundError"]
        ELSE IF fault = "open"
        THEN [files |-> files, dirs |-> dirs \cup {dir}, error |-> "PermissionError"]
        ELSE IF fault = "write"
        THEN [files |-> [files EXCEPT ![path] = TextFile(SubSeq(text, 1, cut))],
              dirs |-> dirs \cup {dir}, error |-> "OSError"]
        ELSE [files |-> [files EXCEPT ![path] = TextFile(text)],
              dirs |-> dirs \cup {dir}, error |-> "none"]

\* make_srt.py:35-39: what the try of create_srt_from_script catches
CaughtNothing(error) == FALSE

Caught(error) == pc \in {"align", "align_write"}

\* an error leaves the callee: caught at line 38 (warning, then the fallback of
\* line 42) or raised to the caller of the run
Propagate(error) ==
    /\ raised' = Append(raised, error)
    /\ IF Caught(error)
       THEN /\ warnings' = Append(warnings, error)
            /\ pc' = "fallback"
            /\ UNCHANGED outcome
       ELSE /\ pc' = "done"
            /\ outcome' = Raised(error)
            /\ UNCHANGED warnings

create_srt_from_timings ==
    /\ pc \in {"align_write", "fallback_write", "direct_write"}
    /\ \E entries \in {Chunks(word_timings)} :
       \E text \in {SrtText(entries)} :
       \E fault \in IoFaults :
       \E cut \in (IF fault = "write" THEN Cuts(text) ELSE {0}) :
       \E w \in {SerializerWrite(output_path, text, fault, cut)} :
           /\ files' = w.files
           /\ dirs' = w.dirs
           /\ srt_entries' = entries
           /\ attempts' = attempts + 1
           /\ IF w.error = "none"
              THEN /\ pc' = "done"
                   /\ outcome' = Returned(output_path)
                   /\ UNCHANGED <<raised, warnings>>
              ELSE Propagate(NewError(w.error, "create_srt_from_timings"))
    /\ UNCHANGED <<ADVANCED_ALIGNMENT, script, audio_duration, output_path, audio_file,
                   words, word_timings, seconds, stamp>>

-----------------------------------------------------------------------------
(* get_word_level_timing, make_srt.py:46-80 *)

StartsWith(text, i, a) ==
    /\ i + Len(a) - 1 <= Len(text)
    /\ \A k \in 1..Len(a) : text[i + k - 1] = a[k]

\* text.replace(a, b) from position i on: every occurrence, left to right
RECURSIVE ReplaceFrom(_, _, _, _)
ReplaceFrom(text, i, a, b) ==
    IF i > Len(text) THEN <<>>
    ELSE IF StartsWith(text, i, a) THEN b \o ReplaceFrom(text, i + Len(a), a, b)
    ELSE <<text[i]>> \o ReplaceFrom(text, i + 1, a, b)

\* line 55
WavPath(audio) ==
    ReplaceFrom(audio, 1, <<".", "m", "p", "3">>, <<"_", "t", "e", "m", "p", ".", "w", "a", "v">>)

\* what the environment does to one call: nothing, or one of its steps fails
\* (line 54 from_file, line 56 export, lines 61-62 AudioFile/record,
\* line 66 recognize_google)
AdapterFaults == {"none", "decode", "export", "record", "recognize"}

F_30 == FromInt(30)

\* lines 77-80: the finally of the try
RemoveTemp(fs, wav_path) ==
    IF fs[wav_path].kind # "none" THEN [fs EXCEPT ![wav_path] = NoFile] ELSE fs

\* the files the call leaves, and its word timings r or the type of the
\* error that leaves it
AdapterResult(fs, r) ==
    [files |-> fs, timings |-> IF r.ok THEN r.value ELSE <<>>,
     error |-> IF r.ok THEN "none" ELSE r.error]

AdapterError(fs, type) == [files |-> fs, timings |-> <<>>, error |-> type]

\* line 56: the exported copy of the audio
Exported(audio) == [files EXCEPT ![WavPath(audio)] = AudioFile(files[audio].ms)]

\* line 49 without the libraries, lines 66-75 with them: recognized or not,
\* the same estimate over len(audio) / 1000.0
AdapterEstimate(text, audio) ==
    estimate_word_timing(SplitWs(text),
                         IF ADVANCED_ALIGNMENT THEN FDiv(FromInt(files[audio].ms), F_1000)
                         ELSE F_30)

\* the call as a whole
AdapterCall(text, audio, fault) ==
    IF ~ADVANCED_ALIGNMENT THEN AdapterResult(files, AdapterEstimate(text, audio))
    ELSE IF ~Exists(audio) THEN AdapterError(files, "FileNotFoundError")
    ELSE IF fault = "decode" THEN AdapterError(files, "CouldntDecodeError")
    ELSE IF fault = "export"
    THEN AdapterError([files EXCEPT ![WavPath(audio)] = AudioFile(0)], "OSError")
    ELSE IF fault = "record"
    THEN AdapterError(RemoveTemp(Exported(audio), WavPath(audio)), "ValueError")
    ELSE AdapterResult(RemoveTemp(Exported(audio), WavPath(audio)),
                       AdapterEstimate(text, audio))

\* make_srt.py:36: the call made by create_srt_from_script
get_word_level_timing ==
    /\ pc = "align"
    /\ \E fault \in AdapterFaults :
       \E r \in {AdapterCall(script, audio_file, fault)} :
           /\ files' = r.files
           /\ IF r.error = "none"
              THEN /\ word_timings' = r.timings
                   /\ pc' = "align_write"
                   /\ UNCHANGED <<outcome, raised, warnings>>
              ELSE /\ Propagate(NewError(r.error, "get_word_level_timing"))
                   /\ UNCHANGED word_timings
    /\ UNCHANGED <<ADVANCED_ALIGNMENT, script, audio_duration, output_path, audio_file,
                   words, srt_entries, seconds, stamp, dirs, attempts>>

-----------------------------------------------------------------------------
(* create_srt_from_script, make_srt.py:13-44 *)

\* lines 30-31
EmptyScriptError == [type |-> "ValueError", id |-> 1, by |-> "create_srt_from_script"]

\* line 34
TryAlignment(audio) == audio # NoPath /\ Exists(audio) /\ ADVANCED_ALIGNMENT

\* lines 28-34: a new run, up to the choice between alignment and fallback
create_srt_from_script ==
    /\ pc \in {"idle", "done"}
    /\ \E s \in Scripts, d \in PipelineDurations, out \in OutputPaths, a \in AudioArgs :
          /\ script' = s
          /\ audio_duration' = d
          /\ output_path' = out
          /\ audio_file' = a
          /\ words' = SplitWs(Replace(s, "\n", " "))
          /\ IF SplitWs(Replace(s, "\n", " ")) = <<>>
             THEN /\ pc' = "done"
                  /\ raised' = <<EmptyScriptError>>
                  /\ outcome' = Raised(EmptyScriptError)
             ELSE /\ pc' = IF TryAlignment(a) THEN "align" ELSE "fallback"
                  /\ raised' = <<>>
                  /\ outcome' = NoOutcome
    /\ word_timings' = <<>>
    /\ srt_entries' = <<>>
    /\ warnings' = <<>>
    /\ attempts' = 0
    /\ UNCHANGED <<ADVANCED_ALIGNMENT, seconds, stamp, files, dirs>>

\* line 42: the fallback estimate
FallbackTimingsDefault(ws, duration) == estimate_word_timing(ws, F_30)

FallbackTimings(ws, duration) == estimate_word_timing(ws, duration)

fallback_timing ==
    /\ pc = "fallback"
    /\ \E r \in {FallbackTimings(words, audio_duration)} :
          IF r.ok
          THEN /\ word_timings' = r.value
               /\ pc' = "fallback_write"
               /\ UNCHANGED <<outcome, raised, warnings>>
          ELSE /\ Propagate(NewError(r.error, "estimate_word_timing"))
               /\ UNCHANGED word_timings
    /\ UNCHANGED <<ADVANCED_ALIGNMENT, script, audio_duration, output_path, audio_file,
                   words, srt_entries, seconds, stamp, files, dirs, attempts>>

-----------------------------------------------------------------------------
(* The caption pipeline: runs of create_srt_from_script, one after another *)

Init ==
    /\ pc = "idle"
    /\ ADVANCED_ALIGNMENT \in BOOLEAN
    /\ \E audio \in BOOLEAN :
          /\ files = [p \in Paths |-> IF audio /\ p = Mp3Path THEN AudioFile(AudioMillis)
                                      ELSE NoFile]
          /\ dirs = IF audio THEN {TempDir} ELSE {}
    /\ script = <<>>
    /\ audio_duration = FZero
    /\ output_path = NoPath
    /\ audio_file = NoPath
    /\ words = <<>>
    /\ word_timings = <<>>
    /\ srt_entries = <<>>
    /\ seconds = FZero
    /\ stamp = <<>>
    /\ outcome = NoOutcome
    /\ raised = <<>>
    /\ warnings = <<>>
    /\ attempts = 0

Next ==
    \/ create_srt_from_script
    \/ get_word_level_timing
    \/ fallback_timing
    \/ create_srt_from_timings

Spec == Init /\ [][Next]_vars

-----------------------------------------------------------------------------
(* create_srt_from_timings called on its own, make_srt.py:122-178 *)

\* the sequences of at most n words of a vocabulary
WordSeqs(vocabulary, n) == UNION {[1..k -> vocabulary] : k \in 0..n}

\* a word without punctuation, one that ends a chunk, one that does not
TimingWords == {Hey, Go, Note}

\* ten words without punctuation
TenWords == [i \in 1..10 |-> IF i % 2 = 1 THEN Hey ELSE Word]

\* timings of one second a word
OneSecondEach(ws) ==
    [i \in 1..Len(ws) |-> [word |-> ws[i], start |-> FromInt(i - 1), end |-> FromInt(i)]]

InitTimings ==
    /\ pc = "direct_write"
    /\ ADVANCED_ALIGNMENT = FALSE
    /\ word_timings \in {OneSecondEach(ws) : ws \in WordSeqs(TimingWords, MaxTimings) \cup {TenWords}}
    /\ output_path \in OutputPaths
    /\ files = [p \in Paths |-> NoFile]
    /\ dirs = {}
    /\ script = <<>>
    /\ audio_duration = FZero
    /\ audio_file = NoPath
    /\ words = <<>>
    /\ srt_entries = <<>>
    /\ seconds = FZero
    /\ stamp = <<>>
    /\ outcome = NoOutcome
    /\ raised = <<>>
    /\ warnings = <<>>
    /\ attempts = 0

NextTimings == create_srt_from_timings

SpecTimings == InitTimings /\ [][NextTimings]_vars

-----------------------------------------------------------------------------
(* estimate_word_timing called on its own, make_srt.py:82-120 *)

EstimateWords == {Hey, Go, Word, Note, Why, Parents}

\* total_duration: 0.5, 1.0, 2.5, 7.3 and 30.0 seconds
EstimateDurations == {Float(1, 2), FOne, Float(5, 2), Float(73, 10), F_30}

InitEstimate ==
    /\ pc = "fallback"
    /\ ADVANCED_ALIGNMENT = FALSE
    /\ words \in WordSeqs(EstimateWords, MaxWords)
    /\ audio_duration \in EstimateDurations
    /\ output_path = OutPath
    /\ files = [p \in Paths |-> NoFile]
    /\ dirs = {}
    /\ script = <<>>
    /\ audio_file = NoPath
    /\ word_timings = <<>>
    /\ srt_entries = <<>>
    /\ seconds = FZero
    /\ stamp = <<>>
    /\ outcome = NoOutcome
    /\ raised = <<>>
    /\ warnings = <<>>
    /\ attempts = 0

NextEstimate == fallback_timing

SpecEstimate == InitEstimate /\ [][NextEstimate]_vars

-----------------------------------------------------------------------------
(* format_srt_timestamp called on its own, make_srt.py:180-187 *)

\* whole seconds: in the first minute, before a minute, before an hour, past two hours
StampBases == {0, 59, 3599, 7325}

\* quarters of a millisecond after a whole second and before the next one
StampSeconds ==
    {Float(b * 4000 + t, 4000) : b \in StampBases, t \in 0..MaxStampTicks}
        \cup {Float((b + 1) * 4000 - t, 4000) : b \in StampBases, t \in 0..MaxStampTicks}

format_timestamp ==
    /\ pc = "format"
    /\ stamp' = format_srt_timestamp(seconds)
    /\ pc' = "done"
    /\ UNCHANGED <<ADVANCED_ALIGNMENT, script, audio_duration, output_path, audio_file,
                   words, word_timings, srt_entries, seconds, files, dirs, outcome,
                   raised, warnings, attempts>>

InitStamp ==
    /\ pc = "format"
    /\ ADVANCED_ALIGNMENT = FALSE
    /\ seconds \in StampSeconds
    /\ stamp = <<>>
    /\ output_path = NoPath
    /\ files = [p \in Paths |-> NoFile]
    /\ dirs = {}
    /\ script = <<>>
    /\ audio_duration = FZero
    /\ audio_file = NoPath
    /\ words = <<>>
    /\ word_timings = <<>>
    /\ srt_entries = <<>>
    /\ outcome = NoOutcome
    /\ raised = <<>>
    /\ warnings = <<>>
    /\ attempts = 0

NextStamp == format_timestamp

SpecStamp == InitStamp /\ [][NextStamp]_vars

-----------------------------------------------------------------------------
(* get_word_level_timing called on its own, make_srt.py:46-80 *)

\* the scripts of at most MaxWords words, single spaces between them
AdapterScripts == {Join(<<" ">>, ws) : ws \in WordSeqs(TimingWords, MaxWords)}

InitAdapter ==
    /\ pc = "align"
    /\ ADVANCED_ALIGNMENT \in BOOLEAN
    /\ script \in AdapterScripts
    /\ audio_file \in {Mp3Path, WavInPath}
    /\ files = [p \in Paths |-> IF p = audio_file THEN AudioFile(AudioMillis) ELSE NoFile]
    /\ dirs = {TempDir}
    /\ audio_duration = FZero
    /\ output_path = OutPath
    /\ words = <<>>
    /\ word_timings = <<>>
    /\ srt_entries = <<>>
    /\ seconds = FZero
    /\ stamp = <<>>
    /\ outcome = NoOutcome
    /\ raised = <<>>
    /\ warnings = <<>>
    /\ attempts = 0

NextAdapter == get_word_level_timing

SpecAdapter == InitAdapter /\ [][NextAdapter]_vars

-----------------------------------------------------------------------------
(* calculate_optimal_subtitle_settings, render_reel.py:10-136 *)

\* line 10: the defaults of the parameters
video_width == 1080

video_height == 1920

\* line.strip(), line 32
RECURSIVE StripLeft(_)
StripLeft(line) ==
    IF line # <<>> /\ line[1] \in Whitespace THEN StripLeft(Tail(line)) ELSE line

RECURSIVE StripRight(_)
StripRight(line) ==
    IF line # <<>> /\ line[Len(line)] \in Whitespace
    THEN StripRight(SubSeq(line, 1, Len(line) - 1))
    ELSE line

Strip(line) == StripRight(StripLeft(line))

\* l.isdigit()
IsDigitText(l) == l # <<>> /\ \A i \in 1..Len(l) : IsDigit(l[i])

\* '-->' in l
HasArrow(l) == \E i \in 1..Len(l) : StartsWith(l, i, <<"-", "-", ">">>)

IsTextLine(l) == ~IsDigitText(l) /\ ~HasArrow(l)

\* lines 35 and 44
TextLines(current_block) == SelectSeq(current_block, IsTextLine)

\* lines 35-37 and 44-46: the block joins the blocks if it has a line of text
CloseBlock(subtitle_blocks, text_lines) ==
    IF text_lines # <<>> THEN Append(subtitle_blocks, Join(<<"\n">>, text_lines))
    ELSE subtitle_blocks

\* lines 31-46
RECURSIVE BlockLoop(_, _, _, _)
\* lines 32-40: one line, stripped
BlockStep(lines, i, subtitle_blocks, current_block, line) ==
    IF line = <<>> /\ current_block # <<>>
    THEN BlockLoop(lines, i + 1, CloseBlock(subtitle_blocks, TextLines(current_block)), <<>>)
    ELSE IF line # <<>>
    THEN BlockLoop(lines, i + 1, subtitle_blocks, Append(current_block, line))
    ELSE BlockLoop(lines, i + 1, subtitle_blocks, current_block)

BlockLoop(lines, i, subtitle_blocks, current_block) ==
    IF i > Len(lines)
    THEN IF current_block # <<>>
         THEN CloseBlock(subtitle_blocks, TextLines(current_block))
         ELSE subtitle_blocks
    ELSE BlockStep(lines, i, subtitle_blocks, current_block, Strip(lines[i]))

\* lines 27-46
SubtitleBlocks(content) == BlockLoop(SplitOn(content, "\n"), 1, <<>>, <<>>)

Max(a, b) == IF a >= b THEN a ELSE b

RECURSIVE MaxOver(_, _)
MaxOver(numbers, acc) ==
    IF numbers = <<>> THEN acc ELSE MaxOver(Tail(numbers), Max(acc, numbers[1]))

LineLengths(block) == [i \in 1..Len(SplitOn(block, "\n")) |-> Len(SplitOn(block, "\n")[i])]

\* lines 58-65
MaxLineLength(subtitle_blocks) ==
    MaxOver([b \in 1..Len(subtitle_blocks) |-> MaxOver(LineLengths(subtitle_blocks[b]), 0)], 0)

MaxLinesInBlock(subtitle_blocks) ==
    MaxOver([b \in 1..Len(subtitle_blocks) |-> Len(SplitOn(subtitle_blocks[b], "\n"))], 0)

\* int(n * x) for an integer n and the float x
IntTimes(n, x) == FInt(FMul(FromInt(n), x))

\* line 68
MarginDefault == IntTimes(video_width, Float(20, 100))

\* line 69
AvailableWidth == video_width - 2 * MarginDefault

\* lines 76 and 80
EstimatedFontSize(max_line_length) ==
    FInt(FDiv(FDiv(FromInt(AvailableWidth), FromInt(max_line_length)), Float(55, 100)))

\* lines 87-90
LongTextCap(max_line_length, font_size) ==
    IF max_line_length > 50 THEN Min(font_size, 32)
    ELSE IF max_line_length > 40 THEN Min(font_size, 36)
    ELSE font_size

\* lines 73-92
FontSize(max_line_length) ==
    IF max_line_length > 0
    THEN LongTextCap(max_line_length, Max(28, Min(EstimatedFontSize(max_line_length), 42)))
    ELSE 32

\* lines 96-102
MarginVertical(font_size, max_lines_in_block) ==
    Max(IntTimes(video_height, Float(8, 100)),
        IntTimes(IntTimes(font_size, Float(13, 10)) * max_lines_in_block, Float(12, 10)))

\* lines 105-108
MarginHorizontal(font_size) ==
    IF font_size <= 30 THEN IntTimes(video_width, Float(15, 100))
    ELSE IF font_size >= 40 THEN IntTimes(video_width, Float(25, 100))
    ELSE MarginDefault

\* lines 110-116
Settings(font_size, max_line_length, max_lines_in_block) ==
    [FontSize |-> font_size,
     MarginL |-> MarginHorizontal(font_size),
     MarginR |-> MarginHorizontal(font_size),
     MarginV |-> MarginVertical(font_size, max_lines_in_block),
     BorderStyle |-> IF max_line_length > 35 THEN 3 ELSE 1]

\* lines 48-55: no block of text found
NoTextSettings == [FontSize |-> 32, MarginL |-> 120, MarginR |-> 120, MarginV |-> 200]

\* lines 128-136: the file could not be read
FallbackSettings ==
    [FontSize |-> 32, MarginL |-> 150, MarginR |-> 150, MarginV |-> 200, BorderStyle |-> 3]

\* lines 48-125
SettingsOfBlocks(subtitle_blocks, max_line_length) ==
    IF subtitle_blocks = <<>> THEN NoTextSettings
    ELSE Settings(FontSize(max_line_length), max_line_length,
                  MaxLinesInBlock(subtitle_blocks))

SettingsOfContent(subtitle_blocks) ==
    SettingsOfBlocks(subtitle_blocks, MaxLineLength(subtitle_blocks))

\* lines 22-136: open and read raise for a missing file and for one that is
\* not text
SubtitleSettings(srt_file) ==
    IF ~Exists(srt_file) \/ files[srt_file].kind # "text" THEN FallbackSettings
    ELSE SettingsOfContent(SubtitleBlocks(files[srt_file].text))

\* render_reel.py:178: the call, on the path of the caption file
calculate_optimal_subtitle_settings ==
    /\ pc = "settings"
    /\ outcome' = Returned(SubtitleSettings(output_path))
    /\ pc' = "done"
    /\ UNCHANGED <<ADVANCED_ALIGNMENT, script, audio_duration, output_path, audio_file,
                   words, word_timings, srt_entries, seconds, stamp, files, dirs,
                   raised, warnings, attempts>>

\* a line of n characters
LineOf(n) == [i \in 1..n |-> "a"]

\* caption files of the serializer, files of one long line, a block of two
\* lines, blank text, and no readable text at all
SettingsFiles ==
    {TextFile(SrtText(Chunks(OneSecondEach(ws)))) : ws \in WordSeqs(TimingWords, MaxTimings)}
        \cup {TextFile(LineOf(n)) : n \in {1, 12, 28, 36, 41, 51, 60}}
        \cup {TextFile(LineOf(5) \o <<"\n">> \o LineOf(7) \o <<"\n", "\n">> \o LineOf(3)),
              TextFile(<<" ", "\n", " ">>), NoFile, AudioFile(AudioMillis)}

InitSettings ==
    /\ pc = "settings"
    /\ ADVANCED_ALIGNMENT = FALSE
    /\ output_path = OutPath
    /\ \E f \in SettingsFiles : files = [p \in Paths |-> IF p = OutPath THEN f ELSE NoFile]
    /\ dirs = {TempDir}
    /\ script = <<>>
    /\ audio_duration = FZero
    /\ audio_file = NoPath
    /\ words = <<>>
    /\ word_timings = <<>>
    /\ srt_entries = <<>>
    /\ seconds = FZero
    /\ stamp = <<>>
    /\ outcome = NoOutcome
    /\ raised = <<>>
    /\ warnings = <<>>
    /\ attempts = 0

NextSettings == calculate_optimal_subtitle_settings

SpecSettings == InitSettings /\ [][NextSettings]_vars

-----------------------------------------------------------------------------
(* Properties of the chunker, under SpecTimings *)

RECURSIVE Flatten(_)
Flatten(seqs) == IF seqs = <<>> THEN <<>> ELSE seqs[1] \o Flatten(Tail(seqs))

\* the words of a chunk: its text split on single spaces
ChunkWords(entry) == SplitOn(entry.text, " ")

\* C1: once the chunker has run on a non-empty sequence of word timings, the
\* words of the chunks, taken chunk by chunk, are exactly the words of the
\* sequence in order: none dropped, duplicated or reordered.
ChunksPartitionWords ==
    (attempts > 0 /\ word_timings # <<>>) =>
        Flatten([i \in 1..Len(srt_entries) |-> ChunkWords(srt_entries[i])])
            = [i \in 1..Len(word_timings) |-> word_timings[i].word]

\* six words in three chunks, the last one the words left over after the loop
ChunksPartitionWitness ==
    /\ attempts > 0
    /\ Len(word_timings) = 6
    /\ Len(srt_entries) = 3
    /\ Len(ChunkWords(srt_entries[3])) = 1
    /\ ~EndsWith(word_timings[6].word, ChunkPunctuation)

\* C2: every chunk has between 1 and 4 words, and a chunk of fewer than 4
\* words that is not the last one ends in one of . ! ? , ;
ChunkSizes ==
    attempts > 0 =>
        \A i \in 1..Len(srt_entries) :
            /\ Len(ChunkWords(srt_entries[i])) \in 1..4
            /\ (i < Len(srt_entries) /\ Len(ChunkWords(srt_entries[i])) < 4) =>
                   EndsWith(srt_entries[i].text, ChunkPunctuation)

\* a chunk closed at 4 words without punctuation, after a shorter chunk closed
\* by punctuation
ChunkSizesWitness ==
    /\ attempts > 0
    /\ Len(srt_entries) >= 2
    /\ Len(ChunkWords(srt_entries[1])) < 4
    /\ Len(ChunkWords(srt_entries[2])) = 4
    /\ ~EndsWith(srt_entries[2].text, ChunkPunctuation)

-----------------------------------------------------------------------------
(* Properties of the estimator, under SpecEstimate *)

FAbs(x) == IF IsZero(x) THEN x ELSE [x EXCEPT !.s = 1]

\* one timing per word in input order, from 0, each start the end before it,
\* each word with start < end
TimingsContiguous ==
    /\ Len(word_timings) = Len(words)
    /\ \A i \in 1..Len(words) :
          /\ word_timings[i].word = words[i]
          /\ word_timings[i].start = (IF i = 1 THEN FZero ELSE word_timings[i - 1].end)
          /\ FLess(word_timings[i].start, word_timings[i].end)

\* the end of the last word
LastEnd == word_timings[Len(word_timings)].end

\* 1e-6
Tolerance == Float(1, 1000000)

\* C3, as amended: for a non-empty word sequence and D > 0 the estimator
\* returns one timing per word in input order, the first start 0, each start
\* the previous end, each word with start < end, and the last end within
\* 1e-6 * D of D.
EstimateCoversDuration ==
    (pc = "fallback_write" /\ words # <<>>) =>
        /\ TimingsContiguous
        /\ FCmp(FAbs(FSub(LastEnd, audio_duration)), FMul(Tolerance, audio_duration)) <= 0

\* three words timed, the last end not the duration itself
EstimateCoversDurationWitness ==
    /\ pc = "fallback_write"
    /\ Len(word_timings) = 3
    /\ TimingsContiguous
    /\ LastEnd # audio_duration

\* C3, as claimed: the same, with the last end equal to D, so that a single
\* word receives the whole interval [0, D].
EstimateEndsAtDuration ==
    (pc = "fallback_write" /\ words # <<>>) =>
        /\ TimingsContiguous
        /\ LastEnd = audio_duration

-----------------------------------------------------------------------------
(* Properties of the timestamps, under SpecStamp *)

DigitValue(c) == CHOOSE d \in 0..9 : DigitChars[d + 1] = c

RECURSIVE Number(_)
Number(text) ==
    IF text = <<>> THEN 0
    ELSE 10 * Number(SubSeq(text, 1, Len(text) - 1)) + DigitValue(text[Len(text)])

\* the fields of "HH:MM:SS,mmm": hours, minutes, seconds, milliseconds
StampFields(text) == SplitOn(SplitOn(text, ",")[1], ":") \o <<SplitOn(text, ",")[2]>>

\* the time a timestamp shows, in milliseconds
StampMillis(text) ==
    ((Number(StampFields(text)[1]) * 60 + Number(StampFields(text)[2])) * 60
        + Number(StampFields(text)[3])) * 1000 + Number(StampFields(text)[4])

\* -1, 0 or 1 as k * x <, =, > n, for a float x >= 0 and integers 0 < k < Base, n
CmpTimes(k, x, n) ==
    IF n < 0 THEN 1
    ELSE IF x.e >= 0 THEN BigCmp(BigShl(BigMulLimb(x.m, k), x.e), BigFromInt(n))
    ELSE BigCmp(BigMulLimb(x.m, k), BigShl(BigFromInt(n), -x.e))

\* every field in its range and of its width
FieldsConsistent ==
    /\ Len(StampFields(stamp)) = 4
    /\ Len(StampFields(stamp)[1]) = 2
    /\ Len(StampFields(stamp)[2]) = 2 /\ Number(StampFields(stamp)[2]) < 60
    /\ Len(StampFields(stamp)[3]) = 2 /\ Number(StampFields(stamp)[3]) < 60
    /\ Len(StampFields(stamp)[4]) = 3 /\ Number(StampFields(stamp)[4]) < 1000

\* C4, as amended: for s >= 0 the milliseconds field is (s mod 1) * 1000 cut
\* to an integer, never rounded up, so it is below 1000 without any carry,
\* and the timestamp is less than one millisecond from s.
TimestampTruncates ==
    pc = "done" =>
        /\ FieldsConsistent
        /\ CmpTimes(1000, seconds, StampMillis(stamp) - 1) > 0
        /\ CmpTimes(1000, seconds, StampMillis(stamp) + 1) < 0

\* a timestamp more than half a millisecond below s, just before a whole second
TimestampTruncatesWitness ==
    /\ pc = "done"
    /\ FieldsConsistent
    /\ Number(StampFields(stamp)[4]) = 999
    /\ CmpTimes(2000, seconds, 2 * StampMillis(stamp) + 1) > 0

\* C4, as claimed: the milliseconds field is round((s mod 1) * 1000), with a
\* carry into the seconds at 1000, so the field is below 1000 and the
\* timestamp is within half a millisecond of s.
TimestampRounds ==
    pc = "done" =>
        /\ FieldsConsistent
        /\ CmpTimes(2000, seconds, 2 * StampMillis(stamp) - 1) >= 0
        /\ CmpTimes(2000, seconds, 2 * StampMillis(stamp) + 1) <= 0

-----------------------------------------------------------------------------
(* Properties of the serializer called on its own, under SpecTimings *)

\* C5: zero timings passed to create_srt_from_timings fail with an error
\* before any file is written: the call raises, and the destination is
\* neither created nor modified.
EmptyTimingsFail ==
    (pc = "done" /\ word_timings = <<>>) =>
        /\ outcome.kind = "raise"
        /\ ~Exists(output_path)
        /\ dirs = {}

-----------------------------------------------------------------------------
(* Properties of the caption pipeline, under Spec *)

Range(seq) == {seq[i] : i \in 1..Len(seq)}

\* the errors that left get_word_level_timing in this run
AdapterErrors == {e \in Range(raised) : e.by = "get_word_level_timing"}

\* the errors that left create_srt_from_timings in this run
WriteErrors == {e \in Range(raised) : e.by = "create_srt_from_timings"}

\* C6: with a total duration <= 0 the estimator produces no word timings:
\* the run never reaches a write with estimated timings, and a run that did
\* not try the alignment ends with an error raised to the caller before any
\* serialization.
MalformedDurationFatal ==
    (words # <<>> /\ FCmp(audio_duration, FZero) <= 0) =>
        /\ pc # "fallback_write"
        /\ (pc = "done" /\ ~TryAlignment(audio_file)) =>
              /\ outcome.kind = "raise"
              /\ word_timings = <<>>
              /\ attempts = 0

\* what the heuristic path alone computes for this run
HeuristicTimings == estimate_word_timing(words, audio_duration).value

\* C7: a failed alignment attempt (not tried, or an error caught) never ends
\* the run: the run goes on to the fallback, the timings of the fallback are
\* estimate_word_timing(words, audio_duration), and a file it writes is the
\* one the heuristic path alone writes.
FallbackIsHeuristic ==
    /\ (warnings # <<>>) => pc \in {"fallback", "fallback_write", "done"}
    /\ (pc = "fallback_write") => word_timings = HeuristicTimings
    /\ (pc = "done" /\ outcome.kind = "return"
            /\ (~TryAlignment(audio_file) \/ warnings # <<>>)) =>
          /\ word_timings = HeuristicTimings
          /\ files[output_path] = TextFile(SrtText(Chunks(HeuristicTimings)))

\* a run whose adapter raised, ended with the file of the heuristic path,
\* which is not the file of the audio's own length
FallbackIsHeuristicWitness ==
    /\ pc = "done"
    /\ outcome.kind = "return"
    /\ AdapterErrors # {}
    /\ FCmp(audio_duration, FZero) > 0
    /\ files[output_path] = TextFile(SrtText(Chunks(HeuristicTimings)))
    /\ HeuristicTimings # AdapterEstimate(script, audio_file).value

ValidFileOrError ==
    (pc = "done") =>
        \/ outcome.kind = "return" /\ validate_srt_file(output_path)
        \/ outcome.kind = "raise" /\ ~validate_srt_file(output_path)

\* C10: an error of the write leaves create_srt_from_script as it is: it
\* ends the run as its outcome, is not among the warnings, and no second
\* serialization follows in the run.
WriteErrorsPropagate ==
    \A e \in WriteErrors :
        /\ pc = "done"
        /\ outcome = Raised(e)
        /\ e \notin Range(warnings)
        /\ attempts = 1

-----------------------------------------------------------------------------
(* Round trip of the serializer and the validator, under SpecTimings *)

\* the errors of a destination that cannot be written: open or write failing
UnwritableErrors == {"PermissionError", "OSError"}

\* C11: for one or more timings with non-negative times, unless the
\* destination cannot be opened or written, create_srt_from_timings returns
\* the path and validate_srt_file accepts the file there.
RoundTripValidates ==
    (pc = "done" /\ word_timings # <<>>
        /\ ~(outcome.kind = "raise" /\ outcome.error.type \in UnwritableErrors)) =>
        /\ outcome = Returned(output_path)
        /\ validate_srt_file(output_path)

-----------------------------------------------------------------------------
(* Order of the timestamps, under SpecStamp *)

\* a < b for two texts of characters compared by code point; the characters
\* of a timestamp are digits, ":" and ",", and "," < "0" < ... < "9" < ":"
CharRank(c) == IF c = "," THEN 0 ELSE IF c = ":" THEN 11 ELSE DigitValue(c) + 1

RECURSIVE LexLeq(_, _)
LexLeq(a, b) ==
    IF a = <<>> THEN TRUE
    ELSE IF b = <<>> THEN FALSE
    ELSE IF a[1] = b[1] THEN LexLeq(Tail(a), Tail(b))
    ELSE CharRank(a[1]) < CharRank(b[1])

\* the timestamp of every seconds value of the model
StampOf == [b \in StampSeconds |-> format_srt_timestamp(b)]

\* C12: format_srt_timestamp is monotonic: for non-negative a < b with
\* two-digit hours, format(a) is lexicographically at most format(b).
TimestampMonotonic ==
    (pc = "done") =>
        \A b \in StampSeconds :
            FLess(seconds, b) => LexLeq(stamp, StampOf[b])

\* the last millisecond of an hour is formatted, and the hour after it is a
\* larger value with a different timestamp
TimestampMonotonicWitness ==
    /\ pc = "done"
    /\ Number(StampFields(stamp)[1]) = 0
    /\ Number(StampFields(stamp)[2]) = 59
    /\ Number(StampFields(stamp)[3]) = 59
    /\ Number(StampFields(stamp)[4]) = 999
    /\ \E b \in StampSeconds :
          FLess(seconds, b) /\ Number(StampFields(StampOf[b])[1]) = 1

-----------------------------------------------------------------------------
(* Layout of the file and greedy chunking, under SpecTimings *)

\* the lines of the file at the destination
FileLines == SplitOn(files[output_path].text, "\n")

\* C13: the file written for N >= 1 chunks is N blocks in chunk order, block
\* k being the index k, the line "start --> end" and the text of chunk k,
\* with one blank line between consecutive blocks and none at the end.
FileIsBlocks ==
    (pc = "done" /\ outcome.kind = "return" /\ srt_entries # <<>>) =>
        /\ Len(FileLines) = 4 * Len(srt_entries) - 1
        /\ \A k \in 1..Len(srt_entries) :
              /\ FileLines[4 * k - 3] = Decimal(k)
              /\ FileLines[4 * k - 2] =
                    format_srt_timestamp(srt_entries[k].start) \o Arrow
                        \o format_srt_timestamp(srt_entries[k].end)
              /\ FileLines[4 * k - 1] = srt_entries[k].text
              /\ (k < Len(srt_entries)) => FileLines[4 * k] = <<>>

\* a file of three blocks, the last line of which is the text of the third chunk
FileIsBlocksWitness ==
    /\ pc = "done"
    /\ outcome.kind = "return"
    /\ Len(srt_entries) = 3
    /\ Len(FileLines) = 11
    /\ FileLines[11] = srt_entries[3].text

\* the numbers of words of the chunks, in order
ChunkLengths == [i \in 1..Len(srt_entries) |-> Len(ChunkWords(srt_entries[i]))]

\* C14: a word at position 2 or later of its chunk that ends in one of
\* . ! ? , ; is the last word of the chunk, and so is a word at position 4;
\* ten words without punctuation give chunks of 4, 4 and 2 words.
ChunksCloseGreedily ==
    (attempts > 0) =>
        /\ \A i \in 1..Len(srt_entries) :
              \A j \in 1..ChunkLengths[i] :
                  ((j >= 2 /\ EndsWith(ChunkWords(srt_entries[i])[j], ChunkPunctuation))
                        \/ j = 4)
                    => j = ChunkLengths[i]
        /\ (Len(word_timings) = 10
                /\ \A i \in 1..10 : ~EndsWith(word_timings[i].word, ChunkPunctuation))
              => ChunkLengths = <<4, 4, 2>>

\* the ten words chunked
ChunksCloseGreedilyWitness ==
    /\ attempts > 0
    /\ Len(word_timings) = 10
    /\ \A i \in 1..10 : ~EndsWith(word_timings[i].word, ChunkPunctuation)
    /\ ChunkLengths = <<4, 4, 2>>

-----------------------------------------------------------------------------
(* Weights of the estimator, under SpecEstimate *)

\* the weight of a word before normalization: 0.3, or 0.3 + 0.2 for more than
\* 6 characters, or 0.2 for at most 3
LengthWeight(word) ==
    IF Len(word) > 6 THEN FAdd(F_0_3, F_0_2)
    ELSE IF Len(word) <= 3 THEN F_0_2
    ELSE F_0_3

\* plus 0.3 after . ! ? or else 0.15 after , ; :
Weight(word) ==
    IF EndsWith(word, SentencePunctuation) THEN FAdd(LengthWeight(word), F_0_3)
    ELSE IF EndsWith(word, ClausePunctuation) THEN FAdd(LengthWeight(word), F_0_15)
    ELSE LengthWeight(word)

\* the sum of the weights of the words timed
WeightSum == FSum([i \in 1..Len(words) |-> Weight(words[i])], FZero)

\* the interval of word i is its weight times duration / sum of the weights,
\* and so, up to the rounding of the floats, the share weight / sum of the duration
ShareOfWeight(i) ==
    /\ word_timings[i].end =
          FAdd(word_timings[i].start,
               FMul(Weight(words[i]), FDiv(audio_duration, WeightSum)))
    /\ FCmp(FAbs(FSub(FMul(FSub(word_timings[i].end, word_timings[i].start), WeightSum),
                      FMul(Weight(words[i]), audio_duration))),
            FMul(Tolerance, FMul(Weight(words[i]), audio_duration))) <= 0

\* the script "Hey parents!" over one second
HeyParents == words = <<Hey, Parents>> /\ audio_duration = FOne

\* C15: each word is timed by its weight (0.3, plus 0.2 if longer than 6
\* characters or 0.2 if at most 3 long, plus 0.3 after . ! ? or else 0.15
\* after , ; :) as a share of the duration; for Hey parents! over 1.0 the
\* second word gets the longer interval and the chunker gives the single
\* chunk "Hey parents!" from 0 to 1.0.
WeightsShareDuration ==
    (pc = "fallback_write" /\ words # <<>>) =>
        /\ Len(word_timings) = Len(words)
        /\ \A i \in 1..Len(words) : ShareOfWeight(i)
        /\ HeyParents =>
              /\ FLess(FSub(word_timings[1].end, word_timings[1].start),
                       FSub(word_timings[2].end, word_timings[2].start))
              /\ Chunks(word_timings) =
                    <<[text |-> Hey \o <<" ">> \o Parents, start |-> FZero, end |-> FOne]>>

\* Hey parents! timed over one second
WeightsShareDurationWitness ==
    /\ pc = "fallback_write"
    /\ HeyParents
    /\ word_timings[1].end = F_0_2
    /\ word_timings[2].end = FOne

-----------------------------------------------------------------------------
(* Properties of the subtitle settings, under SpecSettings *)

RecognizedOptions == {"FontSize", "MarginL", "MarginR", "MarginV", "BorderStyle"}

\* C16: whatever the file holds, the settings returned have the five options
\* FontSize, MarginL, MarginR, MarginV and BorderStyle, with MarginL = MarginR
\* and FontSize from 28 to 42, and are those the content determines.
SettingsComplete ==
    (pc = "done") =>
        /\ outcome.kind = "return"
        /\ DOMAIN outcome.value = RecognizedOptions
        /\ outcome.value.MarginL = outcome.value.MarginR
        /\ outcome.value.FontSize \in 28..42
        /\ outcome.value = SubtitleSettings(output_path)

-----------------------------------------------------------------------------
(* Properties of the alignment adapter called on its own, under SpecAdapter *)

\* C17: after a call of get_word_level_timing, returned or raised, the input
\* audio file exists with the content it had before the call.
AudioFileKept ==
    (pc # "align") => files[audio_file] = AudioFile(AudioMillis)

====
